---- MODULE Spec2Model ----
(***************************************************************************)
(* hcstool: lifecycle of a virtual machine hosted by the Host Compute      *)
(* Service (HCS).  The module models one invocation of the tool (one CLI   *)
(* command) as a sequential process whose steps are the service calls it   *)
(* issues, together with the part of the service state the calls act on    *)
(* (the VM object, the access grants).  Every call of the process to the   *)
(* service is appended to the history variable calls.                      *)
(*                                                                         *)
(* There are two specifications over the same next-state relation.  Spec   *)
(* runs the commands on documents with up to MaxAttach attachments and     *)
(* serves the properties of the transaction.  SpecDoc runs them on few     *)
(* attachments but on documents with virtual-PCI entries, absent keys,     *)
(* undeclared keys and paths that are not clean, and serves the            *)
(* properties of the document transformations.                             *)
(***************************************************************************)
EXTENDS Integers, Sequences, FiniteSets, TLC

(***************************************************************************)
(* Bounds of the model.                                                    *)
(***************************************************************************)
\* largest number of SCSI attachments of an input document
MaxAttach == 2
\* largest number of GPUs the device enumeration returns
MaxGpus == 1

(***************************************************************************)
(* Program constants.  A 32-bit word is written as its two's-complement    *)
(* signed value (0xFFFFFFFF is -1, 0x80070005 is -2147024891).             *)
(***************************************************************************)
\* hcsapi.go:55  const infinite = uint32(0xFFFFFFFF)
infinite == -1
\* hcsapi.go:19  eAccessDenied = 0x80070005
eAccessDenied == -2147024891
\* hcsapi.go:17  hcsESystemNotFound = 0xc037010e
hcsESystemNotFound == -1070137074
\* part_000:413  waitForResult(op, 5000) in terminateAndClose
TerminateRollbackTimeoutMs == 5000
\* part_000:528  waitForResult(op, 10000) in KillVM
KillTimeoutMs == 10000
\* part_000:808  default of --timeout (seconds)
DefaultStopTimeoutS == 30
\* part_000:272  VirtualFunction: 0xFFFF
AutoAssignVF == 65535

(***************************************************************************)
(* Paths.  A path is a sequence of components; an absolute path starts     *)
(* with the root component "/".  The empty sequence is the empty string.   *)
(***************************************************************************)
Root == "/"
Cwd == <<Root, "d">>
EmptyPath == << >>
Paths == { EmptyPath, <<"a.vhdx">>, <<Root, "d", "b.vhdx">> }

IsAbs(p) == Len(p) > 0 /\ Head(p) = Root

RECURSIVE Clean(_)
\* filepath.Clean, as far as the paths of the model need it: "." components go
Clean(p) ==
  IF p = << >> THEN << >>
  ELSE IF Head(p) = "." THEN Clean(Tail(p))
  ELSE <<Head(p)>> \o Clean(Tail(p))

\* filepath.Abs: an absolute path is cleaned, a relative one is joined to the
\* working directory (which needs os.Getwd to succeed)
Abs(p) == IF IsAbs(p) THEN Clean(p) ELSE Clean(Cwd \o p)

(***************************************************************************)
(* Status codes.  A service call returns a machine word (uintptr, 64 bits  *)
(* on the builds that load computecore.dll); the status code proper is its *)
(* low half, and what the service leaves in the high half is not defined   *)
(* by the calling convention.  A word is written as its two 32-bit halves. *)
(***************************************************************************)
Word(hi, lo) == [hi |-> hi, lo |-> lo]

\* uint32(hr)
uint32(hr) == hr.lo

\* the words a service call may return: S_OK, S_FALSE, a failure code, and
\* S_OK under a high half that is not zero
StatusCodes == { Word(0, 0), Word(0, 1), Word(0, eAccessDenied), Word(1, 0) }

\* hcsapi.go:77-79  hr == 0 || hr == 1, on the whole word
hrOK(hr) == hr = Word(0, 0) \/ hr = Word(0, 1)

\* HcsOpenComputeSystem also reports that there is no such compute system
OpenCodes == StatusCodes \cup { Word(0, hcsESystemNotFound) }

(***************************************************************************)
(* Errors.  NoErr is Go's nil error.  An error carries the message prefix  *)
(* the code wraps it in, the operation name and HRESULT of the HcsError    *)
(* (hr = 0 for errors that are no HcsError) and the path of a grant.       *)
(***************************************************************************)
NoErr == [prefix |-> "", op |-> "", hr |-> 0, path |-> EmptyPath]

Err(prefix, op, hr, path) == [prefix |-> prefix, op |-> op, hr |-> hr, path |-> path]

\* &HcsError{Op: op, HR: uint32(hr)}
HcsError(op, hr) == Err("", op, uint32(hr), EmptyPath)

Wrap(prefix, e) == [e EXCEPT !.prefix = prefix]

(***************************************************************************)
(* The history of service calls.                                           *)
(*   call  the computecore.dll procedure                                   *)
(*   fn    the Go function that issued it                                  *)
(*   h     the operation handle passed or returned (0: none / NULL)        *)
(*   sys   the compute-system handle passed or returned (0: none)          *)
(*   path  the file path of a grant or revoke                              *)
(*   t     the timeout of a wait                                           *)
(*   ok    whether the call reported success                               *)
(*   hr    the 32-bit code of the error of a call that failed, else 0      *)
(***************************************************************************)
\* a call that reports no status code
Ev(call, fn, h, sys, path, t, ok) ==
  [call |-> call, fn |-> fn, h |-> h, sys |-> sys, path |-> path, t |-> t, ok |-> ok,
   hr |-> 0]

\* a call that reported the status code hr
EvHr(call, fn, h, sys, path, t, hr) ==
  [call |-> call, fn |-> fn, h |-> h, sys |-> sys, path |-> path, t |-> t,
   ok |-> hrOK(hr), hr |-> IF hrOK(hr) THEN 0 ELSE uint32(hr)]

\* the function fn returned to its caller
Ret(fn) == Ev("return", fn, 0, 0, EmptyPath, 0, TRUE)

VARIABLES
  cmd,          \* the CLI command of this invocation
  pc,           \* position of the process
  specJSON,     \* the configuration document handed to CreateAndStartVM
  spec,         \* the parsed configuration document (ComputeSystemSpec)
  finalJSON,    \* the serialised document handed to createComputeSystem
  gpus,         \* the GPUs the device enumeration returned
  addGPU,       \* --gpu
  vmID,         \* the minted identity ("" before it is minted)
  vhdPaths,     \* extractVHDPaths(&spec)
  grantedPaths, \* the ledger of granted paths
  idx,          \* loop index of the grant / revoke loops
  op,           \* operation handle of the current function (0: none)
  sys,          \* compute-system handle (0: none)
  err,          \* err of createComputeSystem, kept across the wait
  pending,      \* the error a rollback will return when it is done
  result,       \* [done, err, exit]: what the function returned, the exit code
  stdout,       \* lines written to standard output
  nextH,        \* next handle value the service hands out
  calls,        \* history of service calls
  svcVm,        \* state of the VM object in the service
  svcAcl,       \* paths the service currently grants to the VM identity
  timeoutMs,    \* caller-supplied timeout of StopVM
  \* two invocations of the create command against the same service
  txPc,         \* position of each of the two processes
  txPaths,      \* extractVHDPaths(&spec) of each
  txId,         \* the identity each has minted ("" before it is minted)
  txGranted,    \* the ledger of granted paths of each
  txIdx,        \* loop index of the grant / revoke loops of each
  txAcl,        \* the (identity, path) pairs the service currently grants
  txVm,         \* the identities of the VM objects that exist in the service
  txCalls       \* history of the service calls of each

\* the state of the two concurrent invocations
txVars == <<txPc, txPaths, txId, txGranted, txIdx, txAcl, txVm, txCalls>>

vars == <<cmd, pc, specJSON, spec, finalJSON, gpus, addGPU, vmID, vhdPaths, grantedPaths, idx, op, sys, err,
          pending, result, stdout, nextH, calls, svcVm, svcAcl, timeoutMs, txVars>>


(***************************************************************************)
(* The configuration document.  A JSON object is a record whose field keys *)
(* holds the keys that are present in it; the value of an absent key is    *)
(* written as the zero value.  The JSON document has                       *)
(*   Scsi        the attachment objects, in the order the maps are walked  *)
(*   VirtualPci  the virtual-PCI mapping, from keys to entry objects       *)
(*   Unknown     the places where it carries a key that the typed          *)
(*               structures do not declare                                 *)
(* The typed document (ComputeSystemSpec) has Scsi, the ScsiAttachment     *)
(* values (Type, Path) slot by slot, and VirtualPci, from keys to          *)
(* VirtualPciDev values.                                                   *)
(***************************************************************************)
\* part_000:268  fmt.Sprintf("gpu-%d", i), and the key of some other device
GpuKey(i) == <<"gpu-", i>>
OtherKey == <<"nic-", 0>>

\* instance paths: the empty string, and the path of device i
NoInstance == << >>
GpuInstance(i) == <<"PCI", i>>

\* the places of a document where an undeclared key may sit
Levels == {"top", "VirtualMachine", "Devices", "Attachment", "VirtualPciEntry"}

NoPci == << >>

EmptySpec == [Scsi |-> << >>, VirtualPci |-> NoPci]

EmptyJSON == [Scsi |-> << >>, VirtualPci |-> NoPci, Unknown |-> {}]

\* part_000:193-196  the attachment types of the documents; the empty string
\* is the zero value
NoType == ""
VirtualDisk == "VirtualDisk"
Iso == "Iso"

\* an attachment object with Type t and Path p
JsonAttachmentOf(t, p) == [keys |-> {"Type", "Path"}, Type |-> t, Path |-> p]

\* a virtual disk at Path p
JsonAttachment(p) == JsonAttachmentOf(VirtualDisk, p)

\* json.Unmarshal into a ScsiAttachment
UnmarshalAttachment(a) ==
  [Type |-> IF "Type" \in a.keys THEN a.Type ELSE NoType,
   Path |-> IF "Path" \in a.keys THEN a.Path ELSE EmptyPath]

\* encoding/json, json.Unmarshal into the typed structures (part_000:159-201):
\* an absent key leaves the zero value, an undeclared key is dropped
\* (the mutant takes an absent VirtualFunction for the auto-assign value)
MutUnmarshalDefaultsVF(j) ==
  [Scsi |-> [i \in DOMAIN j.Scsi |-> UnmarshalAttachment(j.Scsi[i])],
   VirtualPci |-> [k \in DOMAIN j.VirtualPci |->
       [DeviceInstancePath |->
          IF "DeviceInstancePath" \in j.VirtualPci[k].keys
          THEN j.VirtualPci[k].DeviceInstancePath ELSE NoInstance,
        VirtualFunction |->
          IF "VirtualFunction" \in j.VirtualPci[k].keys
          THEN j.VirtualPci[k].VirtualFunction ELSE AutoAssignVF]]]

Unmarshal(j) ==
  [Scsi |-> [i \in DOMAIN j.Scsi |-> UnmarshalAttachment(j.Scsi[i])],
   VirtualPci |-> [k \in DOMAIN j.VirtualPci |->
       [DeviceInstancePath |->
          IF "DeviceInstancePath" \in j.VirtualPci[k].keys
          THEN j.VirtualPci[k].DeviceInstancePath ELSE NoInstance,
        VirtualFunction |->
          IF "VirtualFunction" \in j.VirtualPci[k].keys
          THEN j.VirtualPci[k].VirtualFunction ELSE 0]]]

\* json.Marshal of the typed structures: Type and Path are always written, the fields of
\* a VirtualPciDev are omitempty, and only declared keys are written
Marshal(s) ==
  [Scsi |-> [i \in DOMAIN s.Scsi |-> JsonAttachmentOf(s.Scsi[i].Type, s.Scsi[i].Path)],
   VirtualPci |-> [k \in DOMAIN s.VirtualPci |->
       [keys |-> { f \in {"DeviceInstancePath"} : s.VirtualPci[k].DeviceInstancePath # NoInstance }
                 \cup { f \in {"VirtualFunction"} : s.VirtualPci[k].VirtualFunction # 0 },
        DeviceInstancePath |-> s.VirtualPci[k].DeviceInstancePath,
        VirtualFunction |-> s.VirtualPci[k].VirtualFunction]],
   Unknown |-> {}]

\* the attachment paths of the documents of the transaction model
Docs == UNION { [1..n -> Paths] : n \in 0..MaxAttach }

\* the documents of the transaction model: attachments only, every key declared
InputDocs ==
  { [Scsi |-> [i \in DOMAIN s |-> JsonAttachment(s[i])], VirtualPci |-> NoPci,
     Unknown |-> {}] : s \in Docs }

\* the documents of the document model: no attachment, one attachment whose
\* Type and Path may be absent or whose Path is absolute and not clean, or two
\* of different types; virtual-PCI entries under
\* a gpu-i key and under another key, with absent, zero and non-zero fields;
\* at most one undeclared key
DocPaths == Paths \cup { <<Root, "d", "a.vhdx">>, <<Root, "d", ".", "a.vhdx">> }

DocAttachments ==
  { [keys |-> {}, Type |-> NoType, Path |-> EmptyPath] } \cup { JsonAttachment(p) : p \in DocPaths }

DocPciEntries ==
  { [keys |-> {"DeviceInstancePath", "VirtualFunction"},
     DeviceInstancePath |-> GpuInstance(9), VirtualFunction |-> 2],
    [keys |-> {"DeviceInstancePath", "VirtualFunction"},
     DeviceInstancePath |-> NoInstance, VirtualFunction |-> 0],
    [keys |-> {}, DeviceInstancePath |-> NoInstance, VirtualFunction |-> 0] }

DocPci ==
  { NoPci } \cup { [k \in {OtherKey} |-> e] : e \in DocPciEntries }
            \cup { [k \in {GpuKey(0), OtherKey} |-> e] : e \in DocPciEntries }

DocScsi ==
  { << >> } \cup { <<a>> : a \in DocAttachments }
            \cup { << JsonAttachment(<<Root, "d", "b.vhdx">>),
                      JsonAttachmentOf(Iso, <<Root, "d", ".", "a.vhdx">>) >> }

RichDocs ==
  { d \in [Scsi : DocScsi,
           VirtualPci : DocPci,
           Unknown : { {} } \cup { {l} : l \in Levels }] :
      /\ "Attachment" \in d.Unknown => d.Scsi # << >>
      /\ "VirtualPciEntry" \in d.Unknown => DOMAIN d.VirtualPci # {} }

(***************************************************************************)
(* The spec transformations.                                               *)
(***************************************************************************)
\* part_000:217-233
MutExtractFirst(s) == IF s.Scsi = << >> THEN << >> ELSE <<Head(s.Scsi).Path>>

extractVHDPaths(s) ==
  LET atts == SelectSeq(s.Scsi, LAMBDA a : a.Path # EmptyPath)
  IN  [i \in DOMAIN atts |-> atts[i].Path]

\* part_000:236-255
\* (the mutant joins every path that is not empty to the working directory)
MutMakePathsAbsoluteJoins(s) ==
  [s EXCEPT !.Scsi = [i \in DOMAIN s.Scsi |->
       IF s.Scsi[i].Path # EmptyPath
       THEN [s.Scsi[i] EXCEPT !.Path = Clean(Cwd \o s.Scsi[i].Path)]
       ELSE s.Scsi[i]]]

makePathsAbsolute(s) ==
  [s EXCEPT !.Scsi = [i \in DOMAIN s.Scsi |->
       IF s.Scsi[i].Path # EmptyPath
       THEN [s.Scsi[i] EXCEPT !.Path = Abs(s.Scsi[i].Path)]
       ELSE s.Scsi[i]]]

\* filepath.Abs consults the working directory for relative paths only
NeedsCwd(s) == \E i \in DOMAIN s.Scsi : s.Scsi[i].Path # EmptyPath /\ ~IsAbs(s.Scsi[i].Path)

\* part_000:259-276; g is the list of instance paths.  The mapping is built
\* anew and replaces the one of the document.
\* (one mutant adds the entries to the mapping of the document, the other
\* builds the whole device section anew)
MutInjectGPUKeepsEntries(s, g) ==
  [s EXCEPT !.VirtualPci =
     [k \in DOMAIN s.VirtualPci \cup { GpuKey(i - 1) : i \in DOMAIN g } |->
        IF k \in { GpuKey(i - 1) : i \in DOMAIN g }
        THEN [DeviceInstancePath |-> g[k[2] + 1], VirtualFunction |-> AutoAssignVF]
        ELSE s.VirtualPci[k]]]

MutInjectGPUReplacesDevices(s, g) ==
  [Scsi |-> << >>,
   VirtualPci |->
     [k \in { GpuKey(i - 1) : i \in DOMAIN g } |->
        [DeviceInstancePath |-> g[k[2] + 1], VirtualFunction |-> AutoAssignVF]]]

injectGPU(s, g) ==
  [s EXCEPT !.VirtualPci =
     [k \in { GpuKey(i - 1) : i \in DOMAIN g } |->
        [DeviceInstancePath |-> g[k[2] + 1], VirtualFunction |-> AutoAssignVF]]]

\* part_000:51-101  the lists enumerateGPUs may return
GpuLists == { [i \in 1..n |-> GpuInstance(i)] : n \in 0..MaxGpus }

(***************************************************************************)
(* Pieces shared by the steps.                                             *)
(***************************************************************************)
Commands == {"create", "stop", "kill", "inspect", "list"}

TheVmID == "vm-1"

\* hcsapi.go:94-98: the service is called only for a non-zero handle
MutCloseOperationNever(fn, h) == << >>

closeOperation(fn, h) ==
  IF h # 0 THEN << Ev("HcsCloseOperation", fn, h, 0, EmptyPath, 0, TRUE) >> ELSE << >>

\* hcsapi.go:173-177
MutCloseComputeSystemNever(fn, s) == << >>

closeComputeSystem(fn, s) ==
  IF s # 0 THEN << Ev("HcsCloseComputeSystem", fn, 0, s, EmptyPath, 0, TRUE) >> ELSE << >>

\* hcsapi.go:83-91: the error of a NULL operation handle
OpenOpError == Err("", "HcsCreateOperation", 0, EmptyPath)

\* the calls that submit a request on an operation handle
SubmitCalls == { "HcsCreateComputeSystem", "HcsStartComputeSystem",
                 "HcsShutDownComputeSystem", "HcsTerminateComputeSystem",
                 "HcsEnumerateComputeSystems", "HcsGetComputeSystemProperties" }

\* a request was accepted by the service on operation handle h
Submitted(h) ==
  \E i \in DOMAIN calls : calls[i].call \in SubmitCalls /\ calls[i].h = h /\ calls[i].ok

\* part_000:771-774 (and the like in cmdList .. cmdKill): the exit code of the
\* process when the function of its command returned e
\* (the mutant exits with 0 whatever was returned)
MutExitCodeAlwaysZero(e) == 0

ExitCode(e) == IF e # NoErr THEN 1 ELSE 0

\* a top-level function returns e to the CLI, which exits
Return(fn, e, evs) ==
  /\ result' = [done |-> TRUE, err |-> e, exit |-> ExitCode(e)]
  /\ calls' = calls \o evs \o << Ret(fn) >>
  /\ pc' = "done"

\* the two processes of the concurrent invocations
Tx == {1, 2}

\* no concurrent invocation is running
TxOff ==
  /\ txPc = [t \in Tx |-> "off"]
  /\ txPaths = [t \in Tx |-> << >>]
  /\ txId = [t \in Tx |-> ""]
  /\ txGranted = [t \in Tx |-> << >>]
  /\ txIdx = [t \in Tx |-> 1]
  /\ txAcl = {}
  /\ txVm = {}
  /\ txCalls = [t \in Tx |-> << >>]

\* the state when the command starts, for an input document out of docs
InitFrom(docs) ==
  /\ TxOff
  /\ cmd \in Commands
  /\ pc = "start"
  /\ specJSON \in IF cmd = "create" THEN docs ELSE { EmptyJSON }
  /\ spec = EmptySpec
  /\ finalJSON = EmptyJSON
  /\ gpus = << >>
  /\ addGPU \in IF cmd = "create" THEN BOOLEAN ELSE {FALSE}
  /\ vmID = ""
  /\ vhdPaths = << >>
  /\ grantedPaths = << >>
  /\ idx = 1
  /\ op = 0
  /\ sys = 0
  /\ err = NoErr
  /\ pending = NoErr
  /\ result = [done |-> FALSE, err |-> NoErr, exit |-> 0]
  /\ stdout = << >>
  /\ nextH = 1
  /\ calls = << >>
  /\ svcVm \in IF cmd \in {"stop", "kill", "inspect"} THEN {"absent", "running"} ELSE {"absent"}
  /\ svcAcl = {}
  /\ timeoutMs \in IF cmd = "stop" THEN {0, DefaultStopTimeoutS * 1000} ELSE {0}

Init == InitFrom(InputDocs)

\* the document model starts from the richer documents
DocInit == InitFrom(RichDocs)

(***************************************************************************)
(* CreateAndStartVM, before the grant phase.                               *)
(***************************************************************************)
\* part_000:281-290  json.Unmarshal, default owner
Parse ==
  /\ cmd = "create" /\ pc = "start"
  /\ \E valid \in BOOLEAN :
       IF valid
       THEN /\ spec' = Unmarshal(specJSON)
            /\ pc' = "resolve"
            /\ UNCHANGED <<result, calls>>
       ELSE /\ Return("CreateAndStartVM", Err("invalid JSON spec", "json.Unmarshal", 0, EmptyPath), << >>)
            /\ UNCHANGED spec
  /\ UNCHANGED <<specJSON, finalJSON, gpus, cmd, txVars, addGPU, vmID, vhdPaths, grantedPaths, idx, op, sys, err,
                 pending, stdout, nextH, svcVm, svcAcl, timeoutMs>>

\* part_000:292-295
ResolvePaths ==
  /\ pc = "resolve"
  /\ \E cwdOK \in (IF NeedsCwd(spec) THEN BOOLEAN ELSE {TRUE}) :
       IF cwdOK
       THEN /\ spec' = makePathsAbsolute(spec)
            /\ pc' = "gpu"
            /\ UNCHANGED <<result, calls>>
       ELSE /\ Return("CreateAndStartVM", Err("cannot resolve path", "filepath.Abs", 0, EmptyPath), << >>)
            /\ UNCHANGED spec
  /\ UNCHANGED <<specJSON, finalJSON, gpus, cmd, txVars, addGPU, vmID, vhdPaths, grantedPaths, idx, op, sys, err,
                 pending, stdout, nextH, svcVm, svcAcl, timeoutMs>>

\* part_000:297-311
InjectDevices ==
  /\ pc = "gpu"
  /\ IF ~addGPU
     THEN /\ pc' = "marshal"
          /\ UNCHANGED <<spec, gpus, result, calls>>
     ELSE \/ /\ Return("CreateAndStartVM", Err("GPU enumeration failed", "enumerateGPUs", 0, EmptyPath), << >>)
             /\ UNCHANGED <<spec, gpus>>
          \/ \E g \in GpuLists :
               /\ gpus' = g
               /\ IF Len(g) = 0
                  THEN /\ Return("CreateAndStartVM", Err("no GPUs found for GPU-PV", "enumerateGPUs", 0, EmptyPath), << >>)
                       /\ UNCHANGED spec
                  ELSE /\ spec' = injectGPU(spec, g)
                       /\ pc' = "marshal"
                       /\ UNCHANGED <<result, calls>>
  /\ UNCHANGED <<specJSON, finalJSON, cmd, txVars, addGPU, vmID, vhdPaths, grantedPaths, idx, op, sys, err,
                 pending, stdout, nextH, svcVm, svcAcl, timeoutMs>>

\* part_000:313-318  json.Marshal
\* (the mutant opens the operation handle before it serialises the document,
\* and leaves it open when the serialisation fails)
MutSerializeAfterOpen ==
  /\ pc = "marshal"
  /\ \E good \in BOOLEAN :
       IF good
       THEN /\ finalJSON' = Marshal(spec)
            /\ pc' = "guid"
            /\ UNCHANGED <<result, calls, nextH>>
       ELSE /\ Return("CreateAndStartVM", Err("failed to serialize spec", "json.Marshal", 0, EmptyPath),
                      << Ev("HcsCreateOperation", "CreateAndStartVM", nextH, 0, EmptyPath, 0, TRUE) >>)
            /\ nextH' = nextH + 1
            /\ UNCHANGED finalJSON
  /\ UNCHANGED <<specJSON, gpus, cmd, txVars, spec, addGPU, vmID, vhdPaths, grantedPaths, idx, op, sys, err,
                 pending, stdout, svcVm, svcAcl, timeoutMs>>

Serialize ==
  /\ pc = "marshal"
  /\ \E good \in BOOLEAN :
       IF good
       THEN /\ finalJSON' = Marshal(spec)
            /\ pc' = "guid"
            /\ UNCHANGED <<result, calls>>
       ELSE /\ Return("CreateAndStartVM", Err("failed to serialize spec", "json.Marshal", 0, EmptyPath), << >>)
            /\ UNCHANGED finalJSON
  /\ UNCHANGED <<specJSON, gpus, cmd, txVars, spec, addGPU, vmID, vhdPaths, grantedPaths, idx, op, sys, err,
                 pending, stdout, nextH, svcVm, svcAcl, timeoutMs>>

\* part_000:320-336  GenerateGUID, then extractVHDPaths
MintIdentity ==
  /\ pc = "guid"
  /\ \E good \in BOOLEAN :
       IF good
       THEN /\ vmID' = TheVmID
            /\ vhdPaths' = extractVHDPaths(spec)
            /\ grantedPaths' = << >>
            /\ idx' = 1
            /\ pc' = "grant"
            /\ UNCHANGED <<result, calls>>
       ELSE /\ Return("CreateAndStartVM", Err("GenerateGUID failed", "GenerateGUID", 0, EmptyPath), << >>)
            /\ UNCHANGED <<vmID, vhdPaths, grantedPaths, idx>>
  /\ UNCHANGED <<specJSON, finalJSON, gpus, cmd, txVars, spec, addGPU, op, sys, err, pending, stdout, nextH, svcVm,
                 svcAcl, timeoutMs>>

(***************************************************************************)
(* CreateAndStartVM: the grant phase.                                      *)
(***************************************************************************)
\* part_000:339-346  the ledger after grantVmAccess(vmID, p) returned: the path
\* is appended only when the grant succeeded
MutLedgerAppendsAlways(granted, p, good) == Append(granted, p)

LedgerAfterGrant(granted, p, good) == IF good THEN Append(granted, p) ELSE granted

\* part_000:337-347  one iteration of the grant loop (hcsapi.go:263-284)
Grant ==
  /\ pc = "grant" /\ idx <= Len(vhdPaths)
  /\ \E hr \in StatusCodes :
       LET p == vhdPaths[idx] IN
       /\ calls' = Append(calls, EvHr("HcsGrantVmAccess", "CreateAndStartVM", 0, 0, p, 0, hr))
       /\ grantedPaths' = LedgerAfterGrant(grantedPaths, p, hrOK(hr))
       /\ IF hrOK(hr)
          THEN /\ svcAcl' = svcAcl \cup {p}
               /\ idx' = idx + 1
               /\ UNCHANGED <<pc, pending>>
          ELSE /\ pending' = Err("grant VM access", "HcsGrantVmAccess", uint32(hr), p)
               /\ idx' = 1
               /\ pc' = "grant_undo"
               /\ UNCHANGED svcAcl
  /\ UNCHANGED <<specJSON, finalJSON, gpus, cmd, txVars, spec, addGPU, vmID, vhdPaths, op, sys, err, result, stdout,
                 nextH, svcVm, timeoutMs>>

\* one revokeVmAccess call for grantedPaths[idx] (hcsapi.go:287-305); its
\* error is dropped by the caller
RevokeStep(fn) ==
  /\ idx <= Len(grantedPaths)
  /\ \E hr \in StatusCodes :
       LET p == grantedPaths[idx] IN
       /\ calls' = Append(calls, EvHr("HcsRevokeVmAccess", fn, 0, 0, p, 0, hr))
       /\ svcAcl' = IF hrOK(hr) THEN svcAcl \ {p} ELSE svcAcl
  /\ idx' = idx + 1
  /\ UNCHANGED <<specJSON, finalJSON, gpus, cmd, txVars, pc, spec, addGPU, vmID, vhdPaths, grantedPaths, op, sys, err,
                 pending, result, stdout, nextH, svcVm, timeoutMs>>

\* part_000:341-343  the rollback loop of a failed grant
GrantRollback == pc = "grant_undo" /\ RevokeStep("CreateAndStartVM")

\* part_000:419-423
revokeAll == pc = "revoke_all" /\ RevokeStep("revokeAll")

\* part_000:344, 353, 362, 369, 377, 384, 393  return of the error after the rollback
ReturnError ==
  /\ pc \in {"grant_undo", "revoke_all"} /\ idx > Len(grantedPaths)
  /\ Return("CreateAndStartVM", pending,
            IF pc = "revoke_all" THEN << Ret("revokeAll") >> ELSE << >>)
  /\ UNCHANGED <<specJSON, finalJSON, gpus, cmd, txVars, spec, addGPU, vmID, vhdPaths, grantedPaths, idx, op, sys, err,
                 pending, stdout, nextH, svcVm, svcAcl, timeoutMs>>

(***************************************************************************)
(* CreateAndStartVM: create the compute system.                            *)
(***************************************************************************)
\* hcsapi.go:83-91  createOperation: a new handle, or NULL
OpenOperation(fn, good) ==
  /\ calls' = Append(calls, Ev("HcsCreateOperation", fn, IF good THEN nextH ELSE 0, 0, EmptyPath, 0, good))
  /\ op' = IF good THEN nextH ELSE 0
  /\ nextH' = IF good THEN nextH + 1 ELSE nextH

\* part_000:350-354
\* (the mutant does not wait for the grant loop to end)
MutCreateOpenEarly ==
  /\ pc = "grant"
  /\ \E good \in BOOLEAN :
       /\ OpenOperation("CreateAndStartVM", good)
       /\ IF good
          THEN /\ pc' = "create_submit"
               /\ UNCHANGED <<pending, idx>>
          ELSE /\ pending' = OpenOpError
               /\ idx' = 1
               /\ pc' = "revoke_all"
  /\ UNCHANGED <<specJSON, finalJSON, gpus, cmd, txVars, spec, addGPU, vmID, vhdPaths, grantedPaths, sys, err, result,
                 stdout, svcVm, svcAcl, timeoutMs>>

CreateOpen ==
  /\ pc = "grant" /\ idx > Len(vhdPaths)
  /\ \E good \in BOOLEAN :
       /\ OpenOperation("CreateAndStartVM", good)
       /\ IF good
          THEN /\ pc' = "create_submit"
               /\ UNCHANGED <<pending, idx>>
          ELSE /\ pending' = OpenOpError
               /\ idx' = 1
               /\ pc' = "revoke_all"
  /\ UNCHANGED <<specJSON, finalJSON, gpus, cmd, txVars, spec, addGPU, vmID, vhdPaths, grantedPaths, sys, err, result,
                 stdout, svcVm, svcAcl, timeoutMs>>

\* part_000:356  createComputeSystem (hcsapi.go:126-149)
CreateSubmit ==
  /\ pc = "create_submit"
  /\ \E hr \in StatusCodes :
       /\ calls' = Append(calls, EvHr("HcsCreateComputeSystem", "CreateAndStartVM", op,
                                    IF hrOK(hr) THEN nextH ELSE 0, EmptyPath, 0, hr))
       /\ sys' = IF hrOK(hr) THEN nextH ELSE 0
       /\ nextH' = IF hrOK(hr) THEN nextH + 1 ELSE nextH
       /\ err' = IF hrOK(hr) THEN NoErr ELSE HcsError("HcsCreateComputeSystem", hr)
       /\ svcVm' = IF hrOK(hr) THEN "created" ELSE svcVm
  /\ pc' = "create_wait"
  /\ UNCHANGED <<specJSON, finalJSON, gpus, cmd, txVars, spec, addGPU, vmID, vhdPaths, grantedPaths, idx, op, pending,
                 result, stdout, svcAcl, timeoutMs>>

\* part_000:360-370  what follows the create wait
MutAfterCreateWaitIgnoresWait(waitErr) ==
  IF err # NoErr THEN [pc |-> "revoke_all", pending |-> err]
  ELSE [pc |-> "start_open", pending |-> NoErr]

MutAfterCreateWaitPrefersWait(waitErr) ==
  IF waitErr # NoErr
  THEN [pc |-> "revoke_all", pending |-> Wrap("create compute system", waitErr)]
  ELSE IF err # NoErr THEN [pc |-> "revoke_all", pending |-> err]
       ELSE [pc |-> "start_open", pending |-> NoErr]

\* (this mutant goes back to the grant loop when the create step failed)
MutAfterCreateWaitRetries(waitErr) ==
  IF err # NoErr \/ waitErr # NoErr THEN [pc |-> "grant", pending |-> NoErr]
  ELSE [pc |-> "start_open", pending |-> NoErr]

AfterCreateWait(waitErr) ==
  IF err # NoErr THEN [pc |-> "revoke_all", pending |-> err]
  ELSE IF waitErr # NoErr
       THEN [pc |-> "revoke_all", pending |-> Wrap("create compute system", waitErr)]
       ELSE [pc |-> "start_open", pending |-> NoErr]

\* hcsapi.go:102-123  the error of a wait that reported hr
WaitError(hr) == IF hrOK(hr) THEN NoErr ELSE HcsError("HcsWaitForOperationResult", hr)

\* part_000:357-370  waitForResult(op, infinite), closeOperation(op), the checks.
\* The wait is issued whether or not the create request was accepted; on a
\* handle that carries no request it may also never return.
CreateWait ==
  /\ pc = "create_wait"
  /\ \/ /\ ~Submitted(op)
        /\ pc' = "blocked"
        /\ UNCHANGED <<calls, pending, idx>>
     \/ \E hr \in StatusCodes :
          LET next == AfterCreateWait(WaitError(hr)) IN
          /\ calls' = calls
                      \o << EvHr("HcsWaitForOperationResult", "CreateAndStartVM", op, 0, EmptyPath, infinite, hr) >>
                      \o closeOperation("CreateAndStartVM", op)
          /\ pc' = next.pc
          /\ pending' = next.pending
          /\ idx' = 1
  /\ UNCHANGED <<specJSON, finalJSON, gpus, cmd, txVars, spec, addGPU, vmID, vhdPaths, grantedPaths, op, sys, err, result,
                 stdout, nextH, svcVm, svcAcl, timeoutMs>>

(***************************************************************************)
(* CreateAndStartVM: start the compute system.                             *)
(***************************************************************************)
\* part_000:373-378
StartOpen ==
  /\ pc = "start_open"
  /\ \E good \in BOOLEAN :
       /\ OpenOperation("CreateAndStartVM", good)
       /\ IF good
          THEN /\ pc' = "start_submit"
               /\ UNCHANGED pending
          ELSE /\ pending' = OpenOpError
               /\ pc' = "term_open"
  /\ UNCHANGED <<specJSON, finalJSON, gpus, cmd, txVars, spec, addGPU, vmID, vhdPaths, grantedPaths, idx, sys, err, result,
                 stdout, svcVm, svcAcl, timeoutMs>>

\* part_000:380-385  startComputeSystem (hcsapi.go:180-191)
StartSubmit ==
  /\ pc = "start_submit"
  /\ \E hr \in StatusCodes :
       IF hrOK(hr)
       THEN /\ calls' = Append(calls, EvHr("HcsStartComputeSystem", "CreateAndStartVM", op, sys, EmptyPath, 0, hr))
            /\ pc' = "start_wait"
            /\ UNCHANGED pending
       ELSE /\ calls' = calls
                        \o << EvHr("HcsStartComputeSystem", "CreateAndStartVM", op, sys, EmptyPath, 0, hr) >>
                        \o closeOperation("CreateAndStartVM", op)
            /\ pending' = HcsError("HcsStartComputeSystem", hr)
            /\ pc' = "term_open"
  /\ UNCHANGED <<specJSON, finalJSON, gpus, cmd, txVars, spec, addGPU, vmID, vhdPaths, grantedPaths, idx, op, sys, err,
                 result, stdout, nextH, svcVm, svcAcl, timeoutMs>>

\* part_000:387-394  waitForResult(op2, infinite), closeOperation(op2).  The
\* service decides on its own whether the machine runs: a wait that reports
\* success means it does, a wait that reports failure leaves both open.
StartWait ==
  /\ pc = "start_wait"
  /\ \E hr \in StatusCodes :
       /\ calls' = calls
                   \o << EvHr("HcsWaitForOperationResult", "CreateAndStartVM", op, 0, EmptyPath, infinite, hr) >>
                   \o closeOperation("CreateAndStartVM", op)
       /\ IF hrOK(hr)
          THEN /\ pc' = "finish"
               /\ svcVm' = "running"
               /\ UNCHANGED pending
          ELSE /\ pc' = "term_open"
               /\ svcVm' \in {"created", "running"}
               /\ pending' = Wrap("start compute system", WaitError(hr))
  /\ UNCHANGED <<specJSON, finalJSON, gpus, cmd, txVars, spec, addGPU, vmID, vhdPaths, grantedPaths, idx, op, sys, err,
                 result, stdout, nextH, svcAcl, timeoutMs>>

\* part_000:396-402  release the handle, print the identity
Finish ==
  /\ pc = "finish"
  /\ stdout' = Append(stdout, vmID)
  /\ Return("CreateAndStartVM", NoErr, closeComputeSystem("CreateAndStartVM", sys))
  /\ UNCHANGED <<specJSON, finalJSON, gpus, cmd, txVars, spec, addGPU, vmID, vhdPaths, grantedPaths, idx, op, sys, err,
                 pending, nextH, svcVm, svcAcl, timeoutMs>>

(***************************************************************************)
(* terminateAndClose(sys), called by the rollback of the start step; the   *)
(* caller goes on with revokeAll.                                          *)
(***************************************************************************)
\* part_000:407-411
TerminateOpen ==
  /\ pc = "term_open"
  /\ \E good \in BOOLEAN :
       /\ op' = IF good THEN nextH ELSE 0
       /\ nextH' = IF good THEN nextH + 1 ELSE nextH
       /\ IF good
          THEN /\ calls' = Append(calls, Ev("HcsCreateOperation", "terminateAndClose", nextH, 0, EmptyPath, 0, TRUE))
               /\ pc' = "term_submit"
               /\ UNCHANGED idx
          ELSE /\ calls' = calls
                           \o << Ev("HcsCreateOperation", "terminateAndClose", 0, 0, EmptyPath, 0, FALSE) >>
                           \o closeComputeSystem("terminateAndClose", sys)
                           \o << Ret("terminateAndClose") >>
               /\ pc' = "revoke_all"
               /\ idx' = 1
  /\ UNCHANGED <<specJSON, finalJSON, gpus, cmd, txVars, spec, addGPU, vmID, vhdPaths, grantedPaths, sys, err, pending,
                 result, stdout, svcVm, svcAcl, timeoutMs>>

\* part_000:412  terminateComputeSystem (hcsapi.go:208-219), error dropped
TerminateSubmit ==
  /\ pc = "term_submit"
  /\ \E hr \in StatusCodes :
       calls' = Append(calls, EvHr("HcsTerminateComputeSystem", "terminateAndClose", op, sys, EmptyPath, 0, hr))
  /\ pc' = "term_wait"
  /\ UNCHANGED <<specJSON, finalJSON, gpus, cmd, txVars, spec, addGPU, vmID, vhdPaths, grantedPaths, idx, op, sys, err,
                 pending, result, stdout, nextH, svcVm, svcAcl, timeoutMs>>

\* what a terminate request does to the machine: nothing when the service did
\* not accept it, stopped when its wait reports success, and either when the
\* wait fails or times out
AfterTerminate(h, hr) ==
  IF svcVm = "absent" \/ ~Submitted(h) THEN {svcVm}
  ELSE IF hrOK(hr) THEN {"stopped"}
  ELSE {svcVm, "stopped"}

\* part_000:413-416  bounded wait, then both handles are released
\* (the mutant releases the operation handle before it waits on it)
MutTerminateWaitClosesFirst ==
  /\ pc = "term_wait"
  /\ \E hr \in StatusCodes :
       /\ calls' = calls
                   \o closeOperation("terminateAndClose", op)
                   \o << EvHr("HcsWaitForOperationResult", "terminateAndClose", op, 0, EmptyPath,
                            TerminateRollbackTimeoutMs, hr) >>
                   \o closeComputeSystem("terminateAndClose", sys)
                   \o << Ret("terminateAndClose") >>
       /\ svcVm' \in AfterTerminate(op, hr)
  /\ pc' = "revoke_all"
  /\ idx' = 1
  /\ UNCHANGED <<specJSON, finalJSON, gpus, cmd, txVars, spec, addGPU, vmID, vhdPaths, grantedPaths, op, sys, err, pending,
                 result, stdout, nextH, svcAcl, timeoutMs>>

TerminateWait ==
  /\ pc = "term_wait"
  /\ \E hr \in StatusCodes :
       /\ calls' = calls
                   \o << EvHr("HcsWaitForOperationResult", "terminateAndClose", op, 0, EmptyPath,
                            TerminateRollbackTimeoutMs, hr) >>
                   \o closeOperation("terminateAndClose", op)
                   \o closeComputeSystem("terminateAndClose", sys)
                   \o << Ret("terminateAndClose") >>
       /\ svcVm' \in AfterTerminate(op, hr)
  /\ pc' = "revoke_all"
  /\ idx' = 1
  /\ UNCHANGED <<specJSON, finalJSON, gpus, cmd, txVars, spec, addGPU, vmID, vhdPaths, grantedPaths, op, sys, err, pending,
                 result, stdout, nextH, svcAcl, timeoutMs>>

(***************************************************************************)
(* The other commands: StopVM, KillVM, InspectVM, ListVMs.  Their deferred *)
(* releases run, last deferred first, when the function returns.           *)
(***************************************************************************)
\* the function that owns the operation handle of a command
OpOwner(fn) ==
  CASE fn = "InspectVM" -> "getComputeSystemProperties"
    [] fn = "ListVMs" -> "enumerateComputeSystems"
    [] OTHER -> fn

\* the request a command submits
Request(fn) ==
  CASE fn = "StopVM" -> "HcsShutDownComputeSystem"
    [] fn = "KillVM" -> "HcsTerminateComputeSystem"
    [] fn = "InspectVM" -> "HcsGetComputeSystemProperties"
    [] OTHER -> "HcsEnumerateComputeSystems"

\* the timeout of its wait
\* (the mutant of StopVM waits without a timeout)
MutWaitTimeoutInfinite(fn) == IF fn = "KillVM" THEN KillTimeoutMs ELSE infinite

WaitTimeout(fn) ==
  CASE fn = "StopVM" -> timeoutMs
    [] fn = "KillVM" -> KillTimeoutMs
    [] OTHER -> infinite

\* the return of the function that owns the operation handle, when it is not
\* the command's function itself
OwnerReturn(fn) == IF OpOwner(fn) = fn THEN << >> ELSE << Ret(OpOwner(fn)) >>

\* hcsapi.go:152-169  openComputeSystem at the head of StopVM, KillVM, InspectVM
OpenSystem(fn) ==
  /\ pc = "start"
  /\ \E hr \in (IF svcVm = "absent" THEN { w \in OpenCodes : ~hrOK(w) } ELSE OpenCodes) :
       IF hrOK(hr)
       THEN /\ calls' = Append(calls, EvHr("HcsOpenComputeSystem", fn, 0, nextH, EmptyPath, 0, hr))
            /\ sys' = nextH
            /\ nextH' = nextH + 1
            /\ pc' = "lc_open"
            /\ UNCHANGED result
       ELSE /\ Return(fn, HcsError("HcsOpenComputeSystem", hr),
                      << EvHr("HcsOpenComputeSystem", fn, 0, 0, EmptyPath, 0, hr) >>)
            /\ UNCHANGED <<sys, nextH>>
  /\ UNCHANGED <<specJSON, finalJSON, gpus, cmd, txVars, spec, addGPU, vmID, vhdPaths, grantedPaths, idx, op, err, pending,
                 stdout, svcVm, svcAcl, timeoutMs>>

\* createOperation of the command; on NULL the function returns the error
LcOpen(fn) ==
  /\ pc = (IF fn = "ListVMs" THEN "start" ELSE "lc_open")
  /\ \E good \in BOOLEAN :
       /\ op' = IF good THEN nextH ELSE 0
       /\ nextH' = IF good THEN nextH + 1 ELSE nextH
       /\ IF good
          THEN /\ calls' = Append(calls, Ev("HcsCreateOperation", OpOwner(fn), nextH, 0, EmptyPath, 0, TRUE))
               /\ pc' = "lc_submit"
               /\ UNCHANGED result
          ELSE Return(fn, OpenOpError,
                      << Ev("HcsCreateOperation", OpOwner(fn), 0, 0, EmptyPath, 0, FALSE) >>
                      \o OwnerReturn(fn) \o closeComputeSystem(fn, sys))
  /\ UNCHANGED <<specJSON, finalJSON, gpus, cmd, txVars, spec, addGPU, vmID, vhdPaths, grantedPaths, idx, sys, err, pending,
                 stdout, svcVm, svcAcl, timeoutMs>>

\* the request is submitted; on failure the function returns the error
LcSubmit(fn) ==
  /\ pc = "lc_submit"
  /\ \E hr \in StatusCodes :
       IF hrOK(hr)
       THEN /\ calls' = Append(calls, EvHr(Request(fn), OpOwner(fn), op, sys, EmptyPath, 0, hr))
            /\ pc' = "lc_wait"
            /\ UNCHANGED result
       ELSE Return(fn, HcsError(Request(fn), hr),
                   << EvHr(Request(fn), OpOwner(fn), op, sys, EmptyPath, 0, hr) >>
                   \o closeOperation(OpOwner(fn), op) \o OwnerReturn(fn)
                   \o closeComputeSystem(fn, sys))
  /\ UNCHANGED <<specJSON, finalJSON, gpus, cmd, txVars, spec, addGPU, vmID, vhdPaths, grantedPaths, idx, op, sys, err,
                 pending, stdout, nextH, svcVm, svcAcl, timeoutMs>>

\* what a graceful shutdown does to the machine
AfterShutdown(hr) ==
  IF svcVm = "absent" THEN {svcVm} ELSE IF hrOK(hr) THEN {"stopped"} ELSE {svcVm, "stopped"}

\* the wait, the deferred releases, the return of the wait's error
LcWait(fn) ==
  /\ pc = "lc_wait"
  /\ \E hr \in StatusCodes :
       /\ Return(fn, WaitError(hr),
                 << EvHr("HcsWaitForOperationResult", OpOwner(fn), op, 0, EmptyPath, WaitTimeout(fn), hr) >>
                 \o closeOperation(OpOwner(fn), op) \o OwnerReturn(fn)
                 \o closeComputeSystem(fn, sys))
       /\ svcVm' \in (CASE fn = "StopVM" -> AfterShutdown(hr)
                        [] fn = "KillVM" -> AfterTerminate(op, hr)
                        [] OTHER -> {svcVm})
       /\ stdout' = IF fn \in {"InspectVM", "ListVMs"} /\ hrOK(hr)
                    THEN Append(stdout, "result") ELSE stdout
  /\ UNCHANGED <<specJSON, finalJSON, gpus, cmd, txVars, spec, addGPU, vmID, vhdPaths, grantedPaths, idx, op, sys, err,
                 pending, nextH, svcAcl, timeoutMs>>

\* part_000:489-508
StopVM ==
  /\ cmd = "stop"
  /\ (OpenSystem("StopVM") \/ LcOpen("StopVM") \/ LcSubmit("StopVM") \/ LcWait("StopVM"))

\* part_000:511-530
KillVM ==
  /\ cmd = "kill"
  /\ (OpenSystem("KillVM") \/ LcOpen("KillVM") \/ LcSubmit("KillVM") \/ LcWait("KillVM"))

\* part_000:460-486 with getComputeSystemProperties, hcsapi.go:241-259
InspectVM ==
  /\ cmd = "inspect"
  /\ (OpenSystem("InspectVM") \/ LcOpen("InspectVM") \/ LcSubmit("InspectVM") \/ LcWait("InspectVM"))

\* part_000:426-457 with enumerateComputeSystems, hcsapi.go:223-238
ListVMs ==
  /\ cmd = "list"
  /\ (LcOpen("ListVMs") \/ LcSubmit("ListVMs") \/ LcWait("ListVMs"))

CreateAndStartVM ==
  \/ Parse \/ ResolvePaths \/ InjectDevices \/ Serialize \/ MintIdentity
  \/ Grant \/ GrantRollback \/ CreateOpen \/ CreateSubmit \/ CreateWait
  \/ StartOpen \/ StartSubmit \/ StartWait \/ Finish
  \/ TerminateOpen \/ TerminateSubmit \/ TerminateWait
  \/ revokeAll \/ ReturnError

Next == CreateAndStartVM \/ StopVM \/ KillVM \/ InspectVM \/ ListVMs

Spec == Init /\ [][Next]_vars

\* the same program over the documents of the document model
SpecDoc == DocInit /\ [][Next]_vars

(***************************************************************************)
(* Two invocations of the create command that run at the same time         *)
(* against the same service.  Each is a process of its own: its identity,  *)
(* its path list and its ledger are locals of CreateAndStartVM; the two    *)
(* share nothing but the service.  A step is one service call, with the    *)
(* handle bookkeeping around it; the service performs the calls one at a   *)
(* time.                                                                   *)
(***************************************************************************)
\* the path lists of the two invocations
TxPathA == <<Root, "d", "a.vhdx">>
TxPathB == <<Root, "d", "b.vhdx">>
TxPathLists == { <<TxPathA>>, <<TxPathA, TxPathB>>, <<TxPathB, TxPathA>> }

\* part_000:321-326  windows.GenerateGUID: the identity process t mints
\* (the mutant mints the same identity in both processes)
MutMintedIdentityShared(t) == <<"vm-", 1>>

MintedIdentity(t) == <<"vm-", t>>

\* a service call of process t for identity id
TxEv(t, c, id, p, good) == [by |-> t, call |-> c, id |-> id, path |-> p, ok |-> good]

\* the state when the two invocations have parsed their documents
InitTwo ==
  /\ cmd = "create"
  /\ pc = "done"
  /\ specJSON = EmptyJSON
  /\ spec = EmptySpec
  /\ finalJSON = EmptyJSON
  /\ gpus = << >>
  /\ addGPU = FALSE
  /\ vmID = ""
  /\ vhdPaths = << >>
  /\ grantedPaths = << >>
  /\ idx = 1
  /\ op = 0
  /\ sys = 0
  /\ err = NoErr
  /\ pending = NoErr
  /\ result = [done |-> FALSE, err |-> NoErr, exit |-> 0]
  /\ stdout = << >>
  /\ nextH = 1
  /\ calls = << >>
  /\ svcVm = "absent"
  /\ svcAcl = {}
  /\ timeoutMs = 0
  /\ txPc = [t \in Tx |-> "mint"]
  /\ txPaths \in [Tx -> TxPathLists]
  /\ txId = [t \in Tx |-> ""]
  /\ txGranted = [t \in Tx |-> << >>]
  /\ txIdx = [t \in Tx |-> 1]
  /\ txAcl = {}
  /\ txVm = {}
  /\ txCalls = [t \in Tx |-> << >>]

\* part_000:320-326  the identity is minted, or GenerateGUID fails
TxMint(t) ==
  /\ txPc[t] = "mint"
  /\ \/ /\ txId' = [txId EXCEPT ![t] = MintedIdentity(t)]
        /\ txPc' = [txPc EXCEPT ![t] = "grant"]
     \/ /\ txPc' = [txPc EXCEPT ![t] = "failed"]
        /\ UNCHANGED txId
  /\ UNCHANGED <<txPaths, txGranted, txIdx, txAcl, txVm, txCalls>>

\* part_000:337-347  one iteration of the grant loop: grantVmAccess(vmID, p)
TxGrant(t) ==
  /\ txPc[t] = "grant" /\ txIdx[t] <= Len(txPaths[t])
  /\ \E good \in BOOLEAN :
       LET p == txPaths[t][txIdx[t]] IN
       /\ txCalls' = [txCalls EXCEPT ![t] = Append(@, TxEv(t, "HcsGrantVmAccess", txId[t], p, good))]
       /\ txGranted' = [txGranted EXCEPT ![t] = LedgerAfterGrant(@, p, good)]
       /\ IF good
          THEN /\ txAcl' = txAcl \cup { <<txId[t], p>> }
               /\ txIdx' = [txIdx EXCEPT ![t] = @ + 1]
               /\ UNCHANGED txPc
          ELSE /\ txIdx' = [txIdx EXCEPT ![t] = 1]
               /\ txPc' = [txPc EXCEPT ![t] = "undo"]
               /\ UNCHANGED txAcl
  /\ UNCHANGED <<txPaths, txId, txVm>>

\* part_000:350-370  createComputeSystem(vmID, specJSON, op) and the wait on it;
\* the service refuses an identity that names a VM object already
TxCreate(t) ==
  /\ txPc[t] = "grant" /\ txIdx[t] > Len(txPaths[t])
  /\ \E good \in (IF txId[t] \in txVm THEN {FALSE} ELSE BOOLEAN) :
       /\ txCalls' = [txCalls EXCEPT ![t] =
                       Append(@, TxEv(t, "HcsCreateComputeSystem", txId[t], EmptyPath, good))]
       /\ txVm' = IF good THEN txVm \cup { txId[t] } ELSE txVm
       /\ txPc' = [txPc EXCEPT ![t] = IF good THEN "start" ELSE "undo"]
  /\ txIdx' = [txIdx EXCEPT ![t] = 1]
  /\ UNCHANGED <<txPaths, txId, txGranted, txAcl>>

\* part_000:373-400  startComputeSystem(sys, op) and the wait on it, on the
\* handle of the VM object the process has created
TxStart(t) ==
  /\ txPc[t] = "start"
  /\ \E good \in BOOLEAN :
       /\ txCalls' = [txCalls EXCEPT ![t] =
                       Append(@, TxEv(t, "HcsStartComputeSystem", txId[t], EmptyPath, good))]
       /\ txPc' = [txPc EXCEPT ![t] = IF good THEN "ok" ELSE "terminate"]
  /\ UNCHANGED <<txPaths, txId, txGranted, txIdx, txAcl, txVm>>

\* part_000:406-416  terminateAndClose(sys), on the same handle
TxTerminate(t) ==
  /\ txPc[t] = "terminate"
  /\ \E good \in BOOLEAN :
       /\ txCalls' = [txCalls EXCEPT ![t] =
                       Append(@, TxEv(t, "HcsTerminateComputeSystem", txId[t], EmptyPath, good))]
       /\ txVm' = IF good THEN txVm \ { txId[t] } ELSE txVm
  /\ txPc' = [txPc EXCEPT ![t] = "undo"]
  /\ UNCHANGED <<txPaths, txId, txGranted, txIdx, txAcl>>

\* part_000:341-343, 419-423  one revokeVmAccess(vmID, p) of a rollback, for a
\* path of the ledger; its error is dropped
TxRevoke(t) ==
  /\ txPc[t] = "undo" /\ txIdx[t] <= Len(txGranted[t])
  /\ \E good \in BOOLEAN :
       LET p == txGranted[t][txIdx[t]] IN
       /\ txCalls' = [txCalls EXCEPT ![t] = Append(@, TxEv(t, "HcsRevokeVmAccess", txId[t], p, good))]
       /\ txAcl' = IF good THEN txAcl \ { <<txId[t], p>> } ELSE txAcl
  /\ txIdx' = [txIdx EXCEPT ![t] = @ + 1]
  /\ UNCHANGED <<txPc, txPaths, txId, txGranted, txVm>>

\* part_000:344, 362, 369, 384, 393  the error is returned after the rollback
TxReturnError(t) ==
  /\ txPc[t] = "undo" /\ txIdx[t] > Len(txGranted[t])
  /\ txPc' = [txPc EXCEPT ![t] = "failed"]
  /\ UNCHANGED <<txPaths, txId, txGranted, txIdx, txAcl, txVm, txCalls>>

\* a step of one of the two processes
TxStep(t) ==
  /\ \/ TxMint(t) \/ TxGrant(t) \/ TxCreate(t) \/ TxStart(t)
     \/ TxTerminate(t) \/ TxRevoke(t) \/ TxReturnError(t)
  /\ UNCHANGED <<cmd, pc, specJSON, spec, finalJSON, gpus, addGPU, vmID, vhdPaths, grantedPaths, idx,
                 op, sys, err, pending, result, stdout, nextH, calls, svcVm, svcAcl, timeoutMs>>

NextTwo == \E t \in Tx : TxStep(t)

SpecTwo == InitTwo /\ [][NextTwo]_vars

(***************************************************************************)
(* Reading the history.                                                    *)
(***************************************************************************)
\* the positions of the calls named c
At(c) == { i \in DOMAIN calls : calls[i].call = c }

\* the paths of a sequence of calls
PathsIn(sel) == [i \in DOMAIN sel |-> sel[i].path]

\* the paths a grant was issued for, the paths granted, and the paths a revoke
\* was issued for, each in the order of the calls
GrantsInHistory ==
  PathsIn(SelectSeq(calls, LAMBDA e : e.call = "HcsGrantVmAccess"))
GrantedInHistory ==
  PathsIn(SelectSeq(calls, LAMBDA e : e.call = "HcsGrantVmAccess" /\ e.ok))
RevokedInHistory ==
  PathsIn(SelectSeq(calls, LAMBDA e : e.call = "HcsRevokeVmAccess"))

Range(s) == { s[i] : i \in DOMAIN s }
Distinct(s) == \A i, j \in DOMAIN s : i # j => s[i] # s[j]
Occurrences(s, x) == Cardinality({ i \in DOMAIN s : s[i] = x })

GrantFailed == \E i \in At("HcsGrantVmAccess") : ~calls[i].ok
FailedGrantPaths == { calls[i].path : i \in { j \in At("HcsGrantVmAccess") : ~calls[j].ok } }

CreateReturned == cmd = "create" /\ result.done

(***************************************************************************)
(* C1.  A document with N distinct non-empty attachment paths, the first   *)
(* K < N grants succeed and grant K+1 fails: revokes are issued only for   *)
(* the K granted paths, each at most once and, when the function has       *)
(* returned, each exactly once (K revokes in all, none for the path whose  *)
(* grant failed nor for a path never attempted); no operation handle is    *)
(* opened and neither a create nor a start request is submitted.           *)
(***************************************************************************)
C1_GrantFailureRevokesWhatWasGranted ==
  (cmd = "create" /\ Distinct(vhdPaths) /\ GrantFailed) =>
    /\ At("HcsCreateOperation") = {}
    /\ At("HcsCreateComputeSystem") = {}
    /\ At("HcsStartComputeSystem") = {}
    /\ Len(GrantedInHistory) < Len(vhdPaths)
    /\ \A p \in Range(RevokedInHistory) :
         /\ p \in Range(GrantedInHistory)
         /\ p \notin FailedGrantPaths
         /\ Occurrences(RevokedInHistory, p) = 1
    /\ result.done =>
         /\ result.err # NoErr
         /\ Len(RevokedInHistory) = Len(GrantedInHistory)
         /\ \A p \in Range(GrantedInHistory) : Occurrences(RevokedInHistory, p) = 1

\* two distinct paths, the first granted, the second refused, rollback done
C1_Witness ==
  /\ CreateReturned /\ Distinct(vhdPaths) /\ Len(vhdPaths) = 2
  /\ GrantFailed /\ Len(GrantedInHistory) = 1 /\ Len(RevokedInHistory) = 1

(***************************************************************************)
(* The steps of the forward pipeline, as they appear in the history.       *)
(***************************************************************************)
ByCreate(i) == calls[i].fn = "CreateAndStartVM"

\* the createOperation of the create step: the first one of the invocation
IsCreateOpen(i) ==
  /\ calls[i].call = "HcsCreateOperation" /\ ByCreate(i)
  /\ \A j \in 1..(i - 1) : calls[j].call # "HcsCreateOperation"

\* the createOperation of the start step: it follows the create request
IsStartOpen(i) ==
  /\ calls[i].call = "HcsCreateOperation" /\ ByCreate(i)
  /\ \E j \in 1..(i - 1) : calls[j].call = "HcsCreateComputeSystem"

\* the wait on the handle the request named c was submitted on
IsWaitOn(i, c) ==
  /\ calls[i].call = "HcsWaitForOperationResult"
  /\ \E j \in 1..(i - 1) : calls[j].call = c /\ calls[j].h = calls[i].h

CreateStepFailedAt(i) ==
  /\ ~calls[i].ok
  /\ \/ IsCreateOpen(i)
     \/ calls[i].call = "HcsCreateComputeSystem"
     \/ IsWaitOn(i, "HcsCreateComputeSystem")

StartStepFailedAt(i) ==
  /\ ~calls[i].ok
  /\ \/ IsStartOpen(i)
     \/ calls[i].call = "HcsStartComputeSystem"
     \/ IsWaitOn(i, "HcsStartComputeSystem")

CreateStepFailed == cmd = "create" /\ \E i \in DOMAIN calls : CreateStepFailedAt(i)
StartStepFailed == cmd = "create" /\ \E i \in DOMAIN calls : StartStepFailedAt(i)

\* the VM handles createComputeSystem returned
CreatedSystems ==
  { calls[i].sys : i \in { j \in At("HcsCreateComputeSystem") : calls[j].ok } }

\* the positions of the calls named c that carry the VM handle s
AtSys(c, s) == { i \in At(c) : calls[i].sys = s }

(***************************************************************************)
(* C2.  When the create step fails (its operation handle cannot be opened, *)
(* the create request is refused, or the wait on it fails) no start        *)
(* request is ever submitted, and when the function returns it returns an  *)
(* error and one revoke has been issued for every grant it made, in the    *)
(* order of the grants.                                                    *)
(***************************************************************************)
C2_CreateFailureRevokesAllAndNeverStarts ==
  CreateStepFailed =>
    /\ At("HcsStartComputeSystem") = {}
    /\ Len(RevokedInHistory) <= Len(GrantedInHistory)
    /\ result.done =>
         /\ result.err # NoErr
         /\ RevokedInHistory = GrantedInHistory

\* the create request was accepted, its wait failed, two grants were rolled back
C2_Witness ==
  /\ CreateReturned
  /\ \E i \in DOMAIN calls : ~calls[i].ok /\ IsWaitOn(i, "HcsCreateComputeSystem")
  /\ CreatedSystems # {}
  /\ Len(GrantedInHistory) = 2 /\ Len(RevokedInHistory) = 2

\* the rollback's own operation handle was opened
RollbackOpened ==
  \E i \in At("HcsCreateOperation") : calls[i].fn = "terminateAndClose" /\ calls[i].ok

\* every call at a position of A precedes every call at a position of B
Before(A, B) == \A i \in A, j \in B : i < j

ClosesOf(h) == { j \in At("HcsCloseOperation") : calls[j].h = h }

\* the positions at which the function that issued call i returns after it
ReturnsAfter(i) ==
  { r \in At("return") : r > i /\ calls[r].fn = calls[i].fn }

C4_OperationHandleClosedExactlyOnce ==
  /\ \A i \in At("HcsCreateOperation") :
       calls[i].ok =>
         /\ Cardinality(ClosesOf(calls[i].h)) <= 1
         /\ \A j \in ClosesOf(calls[i].h) : j > i /\ calls[j].fn = calls[i].fn
         /\ \A r \in ReturnsAfter(i) :
              Cardinality({ j \in ClosesOf(calls[i].h) : j < r }) = 1
  /\ \A j \in At("HcsCloseOperation") :
       \E i \in At("HcsCreateOperation") : i < j /\ calls[i].ok /\ calls[i].h = calls[j].h

\* a creation that opened its create, start and rollback operations and returned
C4_Witness ==
  /\ CreateReturned
  /\ Cardinality({ i \in At("HcsCreateOperation") : calls[i].ok }) = 3
  /\ Cardinality(At("HcsCloseOperation")) = 3

(***************************************************************************)
(* C5 as stated.  Every VM handle obtained from the service (by            *)
(* createComputeSystem in CreateAndStartVM, by openComputeSystem in        *)
(* StopVM, KillVM and InspectVM) is released at most once, and exactly     *)
(* once when the obtaining function has returned, on every exit path.      *)
(***************************************************************************)
ObtainedSystems ==
  { calls[i].sys : i \in { j \in At("HcsCreateComputeSystem") \cup At("HcsOpenComputeSystem") :
                             calls[j].ok } }

C5_AsStated ==
  \A s \in ObtainedSystems :
    /\ Cardinality(AtSys("HcsCloseComputeSystem", s)) <= 1
    /\ result.done => Cardinality(AtSys("HcsCloseComputeSystem", s)) = 1

(***************************************************************************)
(* C6 as stated.  On every failing exit of CreateAndStartVM at which the   *)
(* VM object exists (createComputeSystem returned a handle), a terminate   *)
(* request was submitted against the object and its handle was released    *)
(* before the return.                                                      *)
(***************************************************************************)
C6_AsStated ==
  (CreateReturned /\ result.err # NoErr) =>
    \A s \in CreatedSystems :
      /\ AtSys("HcsTerminateComputeSystem", s) # {}
      /\ AtSys("HcsCloseComputeSystem", s) # {}

\* the non-empty attachment paths of the document, in order
NonEmptyPaths(s) ==
  LET atts == SelectSeq(s.Scsi, LAMBDA a : a.Path # EmptyPath)
  IN  [i \in DOMAIN atts |-> atts[i].Path]

(***************************************************************************)
(* C7.  When CreateAndStartVM returns nil: one grant was issued for every  *)
(* extracted attachment path, in order, and each succeeded; no revoke and  *)
(* no terminate request was issued; the VM handle was released exactly     *)
(* once, after the start wait succeeded; the minted identity was written   *)
(* to standard output; the grants are standing and the machine runs.       *)
(***************************************************************************)
C7_SuccessLeavesGrantsStanding ==
  (CreateReturned /\ result.err = NoErr) =>
    /\ GrantsInHistory = NonEmptyPaths(spec)
    /\ GrantedInHistory = NonEmptyPaths(spec)
    /\ At("HcsRevokeVmAccess") = {}
    /\ At("HcsTerminateComputeSystem") = {}
    /\ Cardinality(CreatedSystems) = 1
    /\ \A s \in CreatedSystems :
         /\ Cardinality(AtSys("HcsCloseComputeSystem", s)) = 1
         /\ \E w \in DOMAIN calls :
              /\ IsWaitOn(w, "HcsStartComputeSystem") /\ calls[w].ok
              /\ Before({w}, AtSys("HcsCloseComputeSystem", s))
    /\ vmID # "" /\ stdout = << vmID >>
    /\ svcAcl = Range(NonEmptyPaths(spec))
    /\ svcVm = "running"

\* a creation with two attachments that succeeded
C7_Witness ==
  /\ CreateReturned /\ result.err = NoErr
  /\ Len(GrantedInHistory) = 2
  /\ At("HcsCloseComputeSystem") # {}

\* the operations that can fail before the grant phase
PreGrantOps == { "json.Unmarshal", "filepath.Abs", "enumerateGPUs", "json.Marshal",
                 "GenerateGUID" }

FailedBeforeGrant == CreateReturned /\ result.err.op \in PreGrantOps

(***************************************************************************)
(* C8.  When CreateAndStartVM fails before the grant phase (malformed      *)
(* document, path resolution, GPU enumeration failing or finding no        *)
(* device, serialisation, identity generation) it has issued no service    *)
(* call at all: no grant, revoke, create, start or terminate, and no       *)
(* operation handle was opened; and while no identity is minted no service *)
(* call has been issued.                                                   *)
(***************************************************************************)
C8_FailureBeforeGrantIssuesNoCall ==
  /\ FailedBeforeGrant =>
       /\ calls = << Ret("CreateAndStartVM") >>
       /\ nextH = 1
       /\ svcAcl = {} /\ svcVm = "absent"
       /\ stdout = << >>
  /\ (cmd = "create" /\ vmID = "") => \A i \in DOMAIN calls : calls[i].call = "return"

\* GPU passthrough was requested and the enumeration found no device
C8_Witness ==
  /\ FailedBeforeGrant /\ addGPU
  /\ result.err.prefix = "no GPUs found for GPU-PV"
  /\ NonEmptyPaths(spec) # << >>

(***************************************************************************)
(* C9 as stated.  In every reachable state of a creation, with a service   *)
(* in which a start may take effect although its wait reports failure and  *)
(* a terminate may fail or time out: if the created machine is running, no *)
(* grant made for it has been revoked.                                     *)
(***************************************************************************)
C9_AsStated ==
  (cmd = "create" /\ svcVm = "running") =>
    /\ \A i \in At("HcsRevokeVmAccess") : ~calls[i].ok
    /\ Range(GrantedInHistory) \subseteq svcAcl

\* the failed calls of the forward pipeline
ForwardFailures ==
  { i \in DOMAIN calls :
      /\ ~calls[i].ok /\ ByCreate(i)
      /\ calls[i].call \in { "HcsGrantVmAccess", "HcsCreateOperation", "HcsCreateComputeSystem",
                             "HcsWaitForOperationResult", "HcsStartComputeSystem" } }

\* what identifies an error: the operation, the status code, the path
Identity(e) == [op |-> e.op, hr |-> e.hr, path |-> e.path]

\* the identity of the error of the call at position i
ErrorOfCall(i) == [op |-> calls[i].call, hr |-> calls[i].hr, path |-> calls[i].path]

\* the failed calls of the compensation
CompensationFailures ==
  { i \in DOMAIN calls :
      /\ ~calls[i].ok
      /\ \/ calls[i].call = "HcsRevokeVmAccess"
         \/ calls[i].fn = "terminateAndClose" }

ForwardCalls == { "HcsGrantVmAccess", "HcsCreateComputeSystem", "HcsStartComputeSystem" }

\* the calls of the compensation and of the return
CompensationCalls == { "HcsRevokeVmAccess", "HcsTerminateComputeSystem", "HcsCloseOperation",
                       "HcsCloseComputeSystem", "return" }

\* the call at position j may follow the forward failure at position i: it is
\* a compensation call, a call terminateAndClose needs for its terminate
\* request (its operation handle, its wait), or the wait that ends the create
\* step on the handle of the refused create request
FollowsFailure(i, j) ==
  \/ calls[j].call \in CompensationCalls
  \/ calls[j].fn = "terminateAndClose"
  \/ /\ calls[j].call = "HcsWaitForOperationResult"
     /\ calls[i].call = "HcsCreateComputeSystem"
     /\ calls[j].h = calls[i].h

C12_AsStated ==
  (cmd = "create" /\ At("HcsCreateComputeSystem") # {}) =>
    specJSON.Unknown \subseteq finalJSON.Unknown

\* the files that exist on the host
ExistingFiles == { <<Root, "d", "a.vhdx">> }

(***************************************************************************)
(* C13.  As stated: when the create request is submitted, the Path of      *)
(* every SCSI attachment of the submitted document is absolute and names   *)
(* an existing file.                                                       *)
(***************************************************************************)
C13_AsStated ==
  (cmd = "create" /\ At("HcsCreateComputeSystem") # {}) =>
    \A k \in DOMAIN finalJSON.Scsi :
      /\ IsAbs(finalJSON.Scsi[k].Path)
      /\ finalJSON.Scsi[k].Path \in ExistingFiles

\* the GPU injection has run
Injected == cmd = "create" /\ addGPU /\ gpus # << >>

C15_SerializeThenParseIsIdentity ==
  cmd = "create" =>
    /\ Unmarshal(Marshal(spec)).Scsi = spec.Scsi
    /\ Unmarshal(Marshal(spec)).VirtualPci = spec.VirtualPci
    /\ pc \in {"guid", "grant"} =>
         /\ Unmarshal(finalJSON).Scsi = spec.Scsi
         /\ Unmarshal(finalJSON).VirtualPci = spec.VirtualPci

\* a document with an attachment and an entry whose instance path is empty and
\* whose virtual function is 0 was serialised: the entry is written without
\* its two fields
C15_Witness ==
  /\ cmd = "create" /\ pc = "guid"
  /\ Len(spec.Scsi) = 1 /\ spec.Scsi[1].Path # EmptyPath
  /\ OtherKey \in DOMAIN spec.VirtualPci
  /\ spec.VirtualPci[OtherKey] = [DeviceInstancePath |-> NoInstance, VirtualFunction |-> 0]
  /\ "VirtualFunction" \in specJSON.VirtualPci[OtherKey].keys
  /\ finalJSON.VirtualPci[OtherKey].keys = {}

(***************************************************************************)
(* C16.  As stated: makePathsAbsolute applied twice gives what it gives    *)
(* applied once, and it leaves every attachment path that is already       *)
(* absolute as it is.                                                      *)
(***************************************************************************)
C16_AsStated ==
  cmd = "create" =>
    LET once == makePathsAbsolute(spec) IN
    /\ makePathsAbsolute(once) = once
    /\ \A i \in DOMAIN spec.Scsi :
         IsAbs(spec.Scsi[i].Path) => once.Scsi[i].Path = spec.Scsi[i].Path

(***************************************************************************)
(* C16, amended.  makePathsAbsolute applied twice gives what it gives      *)
(* applied once; it leaves an attachment path that is absolute and clean   *)
(* as it is, and replaces an absolute path that is not clean by its clean  *)
(* form.  After the path resolution of CreateAndStartVM the document is a  *)
(* fixed point of it.                                                      *)
(***************************************************************************)
C16_MakePathsAbsoluteIdempotentAndCleans ==
  cmd = "create" =>
    LET once == makePathsAbsolute(spec) IN
    /\ makePathsAbsolute(once) = once
    /\ \A i \in DOMAIN spec.Scsi :
         IsAbs(spec.Scsi[i].Path) => once.Scsi[i].Path = Clean(spec.Scsi[i].Path)
    /\ pc \in {"gpu", "marshal", "guid", "grant"} => once = spec

\* the path resolution has run on a document with an absolute attachment path
\* that is not clean, and has replaced it
C16_Witness ==
  /\ cmd = "create" /\ pc = "gpu"
  /\ Len(spec.Scsi) = 1
  /\ IsAbs(specJSON.Scsi[1].Path)
  /\ Clean(specJSON.Scsi[1].Path) # specJSON.Scsi[1].Path
  /\ spec.Scsi[1].Path = <<Root, "d", "a.vhdx">>

(***************************************************************************)
(* C17.  As stated: closeOperation applied to a handle that was never      *)
(* opened (the zero handle), or to a handle that the history shows closed  *)
(* already, issues no close call to the service.                           *)
(***************************************************************************)
C17_AsStated ==
  /\ closeOperation("caller", 0) = << >>
  /\ \A i \in At("HcsCloseOperation") : closeOperation("caller", calls[i].h) = << >>

\* the phase an error names, by the prefix it was wrapped in or by the
\* operation of its HcsError
PhaseNamed(e) ==
  CASE e.op = "json.Unmarshal" -> "spec parsing"
    [] e.op = "filepath.Abs" -> "path resolution"
    [] e.op = "enumerateGPUs" -> "GPU discovery"
    [] e.op = "json.Marshal" -> "serialization"
    [] e.op = "GenerateGUID" -> "identity"
    [] e.prefix = "grant VM access" -> "grant"
    [] e.prefix = "create compute system" \/ e.op = "HcsCreateComputeSystem" -> "create"
    [] e.prefix = "start compute system" \/ e.op = "HcsStartComputeSystem" -> "start"
    [] OTHER -> "none"

\* the phase of the forward call at position i
PhaseOfCall(i) ==
  CASE calls[i].call = "HcsGrantVmAccess" -> "grant"
    [] CreateStepFailedAt(i) -> "create"
    [] StartStepFailedAt(i) -> "start"
    [] OTHER -> "none"

(***************************************************************************)
(* C18.  As stated: the error CreateAndStartVM returns names the phase     *)
(* that failed; in particular the error of a grant, create or start phase  *)
(* names the phase of the first forward call that failed.                  *)
(***************************************************************************)
C18_AsStated ==
  (CreateReturned /\ result.err # NoErr) =>
    /\ PhaseNamed(result.err) # "none"
    /\ ForwardFailures # {} =>
         LET first == CHOOSE i \in ForwardFailures : \A j \in ForwardFailures : i <= j
         IN  PhaseNamed(result.err) = PhaseOfCall(first)

(***************************************************************************)
(* C19.  StopVM submits at most one graceful-shutdown request and never a  *)
(* terminate request; it waits at most once, only on the handle of the     *)
(* accepted shutdown request, with the timeout its caller supplied; and    *)
(* after a wait it returns the error of the wait as it is (nil when the    *)
(* wait succeeded), having released its operation handle and then its VM   *)
(* handle, each exactly once, after the wait.                              *)
(***************************************************************************)
C19_StopVMNeverEscalates ==
  cmd = "stop" =>
    /\ Cardinality(At("HcsShutDownComputeSystem")) <= 1
    /\ At("HcsTerminateComputeSystem") = {}
    /\ Cardinality(At("HcsWaitForOperationResult")) <= 1
    /\ \A w \in At("HcsWaitForOperationResult") :
         /\ calls[w].t = timeoutMs
         /\ \E r \in At("HcsShutDownComputeSystem") :
              r < w /\ calls[r].ok /\ calls[r].h = calls[w].h
         /\ result.done =>
              /\ result.err = IF calls[w].ok THEN NoErr
                              ELSE Err("", "HcsWaitForOperationResult", calls[w].hr, EmptyPath)
              /\ \E c \in At("HcsCloseOperation"), d \in At("HcsCloseComputeSystem") :
                   /\ w < c /\ c < d
                   /\ calls[c].h = calls[w].h
                   /\ \E o \in At("HcsOpenComputeSystem") : calls[o].ok /\ calls[o].sys = calls[d].sys
                   /\ \A x \in At("return") : d < x
              /\ Cardinality(At("HcsCloseOperation")) = 1
              /\ Cardinality(At("HcsCloseComputeSystem")) = 1

\* the wait of a stop with the default timeout failed and the machine still
\* runs; StopVM has returned the error of the wait
C19_Witness ==
  /\ cmd = "stop" /\ result.done
  /\ timeoutMs = 30000
  /\ svcVm = "running"
  /\ \E w \in At("HcsWaitForOperationResult") : ~calls[w].ok /\ calls[w].t = 30000
  /\ result.err.op = "HcsWaitForOperationResult"

\* the service calls that return a status code
StatusCalls == { i \in DOMAIN calls : calls[i].call \notin {"HcsCreateOperation", "HcsCloseOperation",
                                                            "HcsCloseComputeSystem", "return"} }

(***************************************************************************)
(* C20.  As stated: the error of every service call that failed carries a  *)
(* 32-bit code that is neither 0 nor 1.                                    *)
(***************************************************************************)
C20_AsStated ==
  \A i \in StatusCalls : ~calls[i].ok => calls[i].hr \notin {0, 1}

(***************************************************************************)
(* C21.  The create command writes the minted identity to standard output  *)
(* exactly once when CreateAndStartVM returns nil, and then exits with 0;  *)
(* when it returns an error nothing was written to standard output and the *)
(* process exits with 1; nothing is written before the function returns.   *)
(***************************************************************************)
C21_IdentityPrintedIffSuccess ==
  cmd = "create" =>
    /\ ~result.done => stdout = << >>
    /\ result.done =>
         /\ result.err = NoErr <=> stdout = << TheVmID >>
         /\ result.err = NoErr => result.exit = 0
         /\ result.err # NoErr => (stdout = << >> /\ result.exit = 1)

\* a creation that succeeded: the identity is on standard output, the exit code is 0
C21_Witness ==
  /\ CreateReturned
  /\ result.err = NoErr
  /\ stdout = << vmID >>
  /\ result.exit = 0
  /\ svcVm = "running"

(***************************************************************************)
(* C22.  The forward steps of CreateAndStartVM are ordered: when the       *)
(* create request is submitted every grant call lies before it and has     *)
(* succeeded, one for every extracted path; and before the start request   *)
(* is submitted the create request was accepted and the wait on its        *)
(* operation handle has returned success.                                  *)
(***************************************************************************)
C22_ForwardStepsAreOrdered ==
  cmd = "create" =>
    /\ \A c \in At("HcsCreateComputeSystem") :
         /\ GrantedInHistory = vhdPaths
         /\ \A g \in At("HcsGrantVmAccess") : g < c /\ calls[g].ok
    /\ \A r \in At("HcsStartComputeSystem") :
         \E c \in At("HcsCreateComputeSystem"), w \in At("HcsWaitForOperationResult") :
           /\ c < w /\ w < r
           /\ calls[c].ok /\ calls[w].ok
           /\ calls[w].h = calls[c].h

\* two grants, then the create request and its wait, then the start request
C22_Witness ==
  /\ cmd = "create"
  /\ Len(GrantedInHistory) = 2
  /\ At("HcsCreateComputeSystem") # {}
  /\ At("HcsStartComputeSystem") # {}

(***************************************************************************)
(* C24.  At every call site the wait on an operation handle comes before   *)
(* the release of that handle: no wait is issued on a handle after its     *)
(* close, and when the function of the command has returned every handle   *)
(* that was waited on has been closed after the wait.                      *)
(***************************************************************************)
C24_WaitBeforeClose ==
  \A w \in At("HcsWaitForOperationResult") :
    /\ calls[w].h # 0
    /\ \A c \in ClosesOf(calls[w].h) : w < c
    /\ result.done => ClosesOf(calls[w].h) # {}

\* CreateAndStartVM has waited on its create and on its start operation, and
\* terminateAndClose on its own; all three handles were closed afterwards
C24_Witness ==
  /\ CreateReturned
  /\ Cardinality({ calls[w].h : w \in At("HcsWaitForOperationResult") }) = 3
  /\ \A w \in At("HcsWaitForOperationResult") :
       \E c \in ClosesOf(calls[w].h) : w < c

(***************************************************************************)
(* C25.  As stated, the safety half: CreateAndStartVM never waits without  *)
(* a timeout on an operation handle on which no request was accepted, and  *)
(* so is never left in such a wait.                                        *)
(***************************************************************************)
C25_AsStated ==
  /\ pc # "blocked"
  /\ \A w \in At("HcsWaitForOperationResult") :
       calls[w].t = infinite =>
         \E r \in DOMAIN calls :
           /\ r < w
           /\ calls[r].call \in SubmitCalls
           /\ calls[r].h = calls[w].h
           /\ calls[r].ok

(***************************************************************************)
(* C26.  The transformations change only their part of the document.       *)
(* makePathsAbsolute keeps the slots, the Type of every attachment, every  *)
(* attachment whose Path is empty and the virtual-PCI mapping; injectGPU   *)
(* keeps every attachment; both also as CreateAndStartVM applies them to   *)
(* the parsed input document.  When GPU injection is not requested the     *)
(* virtual-PCI mapping of the submitted document has the keys of the       *)
(* mapping of the input document and, under every key, the same instance   *)
(* path and virtual-function value.                                        *)
(***************************************************************************)
C26_TransformationsChangeOnlyTheirPart ==
  cmd = "create" =>
    /\ LET after == makePathsAbsolute(spec) IN
       /\ after.VirtualPci = spec.VirtualPci
       /\ DOMAIN after.Scsi = DOMAIN spec.Scsi
       /\ \A i \in DOMAIN spec.Scsi :
            /\ after.Scsi[i].Type = spec.Scsi[i].Type
            /\ spec.Scsi[i].Path = EmptyPath => after.Scsi[i] = spec.Scsi[i]
    /\ \A g \in GpuLists : injectGPU(spec, g).Scsi = spec.Scsi
    /\ pc = "gpu" =>
         LET parsed == Unmarshal(specJSON) IN
         /\ spec.VirtualPci = parsed.VirtualPci
         /\ DOMAIN spec.Scsi = DOMAIN parsed.Scsi
         /\ \A i \in DOMAIN spec.Scsi :
              /\ spec.Scsi[i].Type = parsed.Scsi[i].Type
              /\ parsed.Scsi[i].Path = EmptyPath => spec.Scsi[i] = parsed.Scsi[i]
    /\ pc = "marshal" => spec.Scsi = makePathsAbsolute(Unmarshal(specJSON)).Scsi
    /\ (~addGPU /\ At("HcsCreateComputeSystem") # {}) =>
         /\ DOMAIN finalJSON.VirtualPci = DOMAIN specJSON.VirtualPci
         /\ Unmarshal(finalJSON).VirtualPci = Unmarshal(specJSON).VirtualPci

\* a document with two attachments of different types, one of them at a path
\* that the resolution has changed, and a virtual-PCI entry, was submitted
\* without GPU injection
C26_Witness ==
  /\ cmd = "create" /\ ~addGPU
  /\ At("HcsCreateComputeSystem") # {}
  /\ Len(finalJSON.Scsi) = 2
  /\ finalJSON.Scsi[1].Type = VirtualDisk /\ finalJSON.Scsi[2].Type = Iso
  /\ finalJSON.Scsi[2].Path # specJSON.Scsi[2].Path
  /\ OtherKey \in DOMAIN finalJSON.VirtualPci
  /\ finalJSON.VirtualPci[OtherKey].DeviceInstancePath = GpuInstance(9)

\* the calls named c in the history of process t
TxCallsOf(t, c) == { txCalls[t][i] : i \in { j \in DOMAIN txCalls[t] : txCalls[t][j].call = c } }

(***************************************************************************)
(* C23.  For every interleaving of two creation transactions against the   *)
(* same service: every grant, create, start, terminate and revoke call of  *)
(* a transaction carries the identity that transaction minted; a revoke of *)
(* one transaction never names an (identity, path) pair that the other has *)
(* granted; and when a transaction has succeeded, the service holds its    *)
(* grant for each of its paths, whatever the other one has done or does    *)
(* afterwards.                                                             *)
(***************************************************************************)
C23_ConcurrentTransactionsKeepApart ==
  /\ \A t \in Tx : \A i \in DOMAIN txCalls[t] :
       txCalls[t][i].by = t /\ txCalls[t][i].id = txId[t]
  /\ \A t, u \in Tx :
       t # u =>
         \A r \in TxCallsOf(t, "HcsRevokeVmAccess"), g \in TxCallsOf(u, "HcsGrantVmAccess") :
           <<g.id, g.path>> # <<r.id, r.path>>
  /\ \A t \in Tx :
       txPc[t] = "ok" =>
         \A i \in DOMAIN txPaths[t] : <<txId[t], txPaths[t][i]>> \in txAcl

\* both transactions ran over the same path: the first has succeeded, the
\* second has failed after its grant and has revoked it, and the grant of
\* the first is standing
C23_Witness ==
  /\ txPc[1] = "ok" /\ txPc[2] = "failed"
  /\ txId[1] # txId[2]
  /\ txPaths[1] = <<TxPathA>>
  /\ \E r \in TxCallsOf(2, "HcsRevokeVmAccess") : r.ok /\ r.path = TxPathA
  /\ \E g \in TxCallsOf(1, "HcsGrantVmAccess") : g.ok /\ g.path = TxPathA
  /\ <<txId[1], TxPathA>> \in txAcl
  /\ <<txId[2], TxPathA>> \notin txAcl

====
